---- MODULE Spec2Model ----
(***************************************************************************)
(* The dependency-injection Registry of foodiary-api                       *)
(* (src/foodiary-api/src/kernel/di/Registry.ts): the providers table, the  *)
(* register and resolve methods and the lazily created singleton.          *)
(*                                                                         *)
(* A constructor (class) is a number; its identity is its `name`, of which *)
(* there are fewer than constructors, so that two distinct constructors can*)
(* carry the same name.  The 'design:paramtypes' metadata that register    *)
(* reads through Reflect.getMetadata is an input of the register call.     *)
(* Objects built by `new` are numbered in the order of their allocation;   *)
(* user constructors are taken to return normally.                         *)
(***************************************************************************)
EXTENDS Integers, Sequences, FiniteSets, TLC

\* ------------------------------------------------------------------ bounds
NumNames == 3        \* distinct class names (tokens)
NumCtors == 4        \* constructors; constructor NumNames + k is named like k
MaxDeps == 2         \* longest constructor parameter list
MaxParams == 3       \* constructor parameters over all registered classes
MaxStack == 4        \* call-stack frames available to the recursion
MaxObjects == 4      \* objects the heap of one run may hold

Ctors == 1..NumCtors
Tokens == 1..NumNames

\* impl.name
NameOf(impl) == ((impl - 1) % NumNames) + 1

Undefined == "undefined"

\* The values Reflect.getMetadata('design:paramtypes', impl) can return.
NoParamTypes == [defined |-> FALSE]
ParamTypes ==
    {NoParamTypes} \cup
    {[defined |-> TRUE, types |-> d] : d \in UNION {[1..n -> Ctors] : n \in 0..MaxDeps}}

VARIABLES
    instance,     \* Registry.instance: Undefined or the Registry object
    registries,   \* number of Registry objects built by `new Registry()` so far
    providers,    \* the providers Map of the Registry: token -> Provider
    allocated,    \* number of objects built by `new provider.impl(...)` so far
    result,       \* how the last call ended: what it returned or threw
    superclass,   \* the class each class extends, NoClass for a base class
    metadata      \* the 'custom:schema' metadata defined on each class itself

vars == <<instance, registries, providers, allocated, result>>

\* ------------------------------------------------------------------ errors
\* new Error(`"${token}" is already registered in the registry.`)
AlreadyRegistered(token) ==
    [name |-> "Error", token |-> token, text |-> "is already registered in the registry."]

\* new Error(`"${token}" is not registered.`)
NotRegistered(token) ==
    [name |-> "Error", token |-> token, text |-> "is not registered."]

\* What the engine throws when the recursion runs out of call stack.
StackOverflow ==
    [name |-> "RangeError", text |-> "Maximum call stack size exceeded"]

\* ------------------------------------------------------------------ resolve
\* One evaluation of resolve: status, the object returned or the error thrown,
\* and the objects constructed on the way, in construction order.
Returned(obj, trace) == [status |-> "return", value |-> obj, trace |-> trace]
Thrown(err, trace) == [status |-> "throw", error |-> err, trace |-> trace]

\* new provider.impl(...deps): the next object of the heap.
NewUnspread(impl, args, top) == [id |-> top + 1, impl |-> impl, args |-> <<args>>]
New(impl, args, top) == [id |-> top + 1, impl |-> impl, args |-> args]

RECURSIVE resolve(_, _, _, _)
RECURSIVE resolveDeps(_, _, _, _, _, _, _)

\* provider.deps.map(dep => this.resolve(dep)), from the i-th dependency on:
\* args are the instances of the dependencies before i, trace the objects
\* built by them.  A throw of one dependency ends the map.
resolveDepsReversed(table, deps, i, top, depth, args, trace) ==
    IF i > Len(deps)
    THEN Returned(args, trace)
    ELSE LET r == resolve(table, deps[i], top + Len(trace), depth + 1)
         IN  IF r.status = "throw"
             THEN Thrown(r.error, trace \o r.trace)
             ELSE resolveDeps(table, deps, i + 1, top, depth,
                              <<r.value>> \o args, trace \o r.trace)

resolveDepsReusing(table, deps, i, top, depth, args, trace) ==
    IF i > Len(deps)
    THEN Returned(args, trace)
    ELSE IF \E j \in 1..(i - 1) : NameOf(deps[j]) = NameOf(deps[i])
    THEN LET j == CHOOSE j \in 1..(i - 1) : NameOf(deps[j]) = NameOf(deps[i])
         IN  resolveDeps(table, deps, i + 1, top, depth, Append(args, args[j]), trace)
    ELSE LET r == resolve(table, deps[i], top + Len(trace), depth + 1)
         IN  IF r.status = "throw"
             THEN Thrown(r.error, trace \o r.trace)
             ELSE resolveDeps(table, deps, i + 1, top, depth,
                              Append(args, r.value), trace \o r.trace)

resolveDepsLastError(table, deps, i, top, depth, args, trace) ==
    IF i > Len(deps)
    THEN Returned(args, trace)
    ELSE LET r == resolve(table, deps[i], top + Len(trace), depth + 1)
         IN  IF r.status = "throw"
             THEN LET rest == resolveDeps(table, deps, i + 1, top, depth,
                                          args, trace \o r.trace)
                  IN  IF rest.status = "throw" THEN rest
                      ELSE Thrown(r.error, rest.trace)
             ELSE resolveDeps(table, deps, i + 1, top, depth,
                              Append(args, r.value), trace \o r.trace)

resolveDepsTwice(table, deps, i, top, depth, args, trace) ==
    IF i > Len(deps)
    THEN Returned(args, trace)
    ELSE LET first == resolve(table, deps[i], top + Len(trace), depth + 1)
             r == resolve(table, deps[i], top + Len(trace) + Len(first.trace), depth + 1)
         IN  IF r.status = "throw"
             THEN Thrown(r.error, trace \o first.trace \o r.trace)
             ELSE resolveDeps(table, deps, i + 1, top, depth,
                              Append(args, r.value), trace \o first.trace \o r.trace)

resolveDeps(table, deps, i, top, depth, args, trace) ==
    IF i > Len(deps)
    THEN Returned(args, trace)
    ELSE LET r == resolve(table, deps[i], top + Len(trace), depth + 1)
         IN  IF r.status = "throw"
             THEN Thrown(r.error, trace \o r.trace)
             ELSE resolveDeps(table, deps, i + 1, top, depth,
                              Append(args, r.value), trace \o r.trace)

\* Registry.resolve(impl) against the providers `table`, with `top` objects
\* on the heap, in stack frame `depth`.
resolveNamingRequested(table, impl, top, depth) ==
    IF depth > MaxStack
    THEN Thrown(StackOverflow, <<>>)
    ELSE LET token == NameOf(impl)
         IN  IF token \notin DOMAIN table
             THEN Thrown(NotRegistered(token), <<>>)
             ELSE LET provider == table[token]
                      deps == resolveDeps(table, provider.deps, 1, top, depth, <<>>, <<>>)
                  IN  IF deps.status = "throw"
                      THEN Thrown(NotRegistered(token), deps.trace)
                      ELSE LET obj == New(provider.impl, deps.value, top + Len(deps.trace))
                           IN  Returned(obj.id, Append(deps.trace, obj))

resolve(table, impl, top, depth) ==
    IF depth > MaxStack
    THEN Thrown(StackOverflow, <<>>)
    ELSE LET token == NameOf(impl)
         IN  IF token \notin DOMAIN table
             THEN Thrown(NotRegistered(token), <<>>)
             ELSE LET provider == table[token]
                      deps == resolveDeps(table, provider.deps, 1, top, depth, <<>>, <<>>)
                  IN  IF deps.status = "throw"
                      THEN deps
                      ELSE LET obj == New(provider.impl, deps.value, top + Len(deps.trace))
                           IN  Returned(obj.id, Append(deps.trace, obj))

\* ------------------------------------------------------------------ actions
NoProviders == [t \in {} |-> Undefined]

\* No class extends another and none carries a schema.
NoClass == 0
NoMetadata == [c \in Ctors |-> Undefined]

Init ==
    /\ instance = Undefined
    /\ registries = 0
    /\ providers = NoProviders
    /\ allocated = 0
    /\ result = [op |-> "none"]
    /\ superclass = [c \in Ctors |-> NoClass]
    /\ metadata = NoMetadata

\* Constructor parameters of all registered classes.
RECURSIVE SumParams(_, _)
SumParams(table, tokens) ==
    IF tokens = {} THEN 0
    ELSE LET t == CHOOSE x \in tokens : TRUE
         IN  Len(table[t].deps) + SumParams(table, tokens \ {t})

\* static getInstance().  `new Registry()` builds one more Registry object,
\* with an empty providers Map.
GetInstanceAlwaysNew ==
    /\ registries < 2
    /\ instance' = "Registry"
    /\ registries' = registries + 1
    /\ providers' = NoProviders
    /\ result' = [op |-> "getInstance", status |-> "return", value |-> instance']
    /\ UNCHANGED <<allocated, superclass, metadata>>

GetInstance ==
    /\ IF instance = Undefined
       THEN /\ instance' = "Registry"
            /\ registries' = registries + 1
            /\ providers' = NoProviders
       ELSE UNCHANGED <<instance, registries, providers>>
    /\ result' = [op |-> "getInstance", status |-> "return", value |-> instance']
    /\ UNCHANGED <<allocated, superclass, metadata>>

\* this.providers.has(token)
hasOverwriting(table, token) == FALSE
has(table, token) == token \in DOMAIN table

\* this.providers.set(token, provider)
setClearing(table, token, provider) == [t \in {token} |-> provider]
set(table, token, provider) ==
    [t \in DOMAIN table \cup {token} |-> IF t = token THEN provider ELSE table[t]]

\* Reflect.getMetadata('design:paramtypes', impl) ?? []
orEmpty(paramtypes) == IF paramtypes.defined THEN paramtypes.types ELSE <<>>

\* register(impl).  Reflect.getMetadata('design:paramtypes', impl) is read
\* only once the token is known to be free; what it returns is an input.
RegisterByConstructor(impl) ==
    /\ instance # Undefined
    /\ LET token == NameOf(impl)
       IN  IF has(providers, token) /\ providers[token].impl = impl
           THEN /\ result' = [op |-> "register", impl |-> impl, status |-> "throw",
                              error |-> AlreadyRegistered(token)]
                /\ UNCHANGED providers
           ELSE \E paramtypes \in ParamTypes :
                  LET deps == orEmpty(paramtypes)
                  IN  /\ SumParams(providers, DOMAIN providers \ {token}) + Len(deps)
                           <= MaxParams
                      /\ providers' = set(providers, token, [impl |-> impl, deps |-> deps])
                      /\ result' = [op |-> "register", impl |-> impl, status |-> "return",
                                    paramtypes |-> paramtypes]
    /\ UNCHANGED <<instance, registries, allocated, superclass, metadata>>

RegisterDependenciesFirst(impl) ==
    /\ instance # Undefined
    /\ LET token == NameOf(impl)
       IN  IF has(providers, token)
           THEN /\ result' = [op |-> "register", impl |-> impl, status |-> "throw",
                              error |-> AlreadyRegistered(token)]
                /\ UNCHANGED providers
           ELSE \E paramtypes \in ParamTypes :
                  LET deps == orEmpty(paramtypes)
                      missing == {i \in 1..Len(deps) : ~has(providers, NameOf(deps[i]))}
                  IN  /\ SumParams(providers, DOMAIN providers) + Len(deps) <= MaxParams
                      /\ IF missing # {}
                         THEN /\ result' = [op |-> "register", impl |-> impl,
                                            status |-> "throw",
                                            error |-> NotRegistered(NameOf(deps[CHOOSE i \in missing : TRUE]))]
                              /\ UNCHANGED providers
                         ELSE /\ providers' = set(providers, token,
                                                  [impl |-> impl, deps |-> deps])
                              /\ result' = [op |-> "register", impl |-> impl,
                                            status |-> "return", paramtypes |-> paramtypes]
    /\ UNCHANGED <<instance, registries, allocated, superclass, metadata>>

Register(impl) ==
    /\ instance # Undefined
    /\ LET token == NameOf(impl)
       IN  IF has(providers, token)
           THEN /\ result' = [op |-> "register", impl |-> impl, status |-> "throw",
                              error |-> AlreadyRegistered(token)]
                /\ UNCHANGED providers
           ELSE \E paramtypes \in ParamTypes :
                  LET deps == orEmpty(paramtypes)
                  IN  /\ SumParams(providers, DOMAIN providers) + Len(deps) <= MaxParams
                      /\ providers' = set(providers, token, [impl |-> impl, deps |-> deps])
                      /\ result' = [op |-> "register", impl |-> impl, status |-> "return",
                                    paramtypes |-> paramtypes]
    /\ UNCHANGED <<instance, registries, allocated, superclass, metadata>>

\* resolve(impl), called by a user of the Registry
ResolveRegistering(impl) ==
    /\ instance # Undefined
    /\ LET token == NameOf(impl)
           table == IF has(providers, token) THEN providers
                    ELSE set(providers, token, [impl |-> impl, deps |-> <<>>])
           r == resolve(table, impl, allocated, 1)
       IN  /\ allocated + Len(r.trace) <= MaxObjects
           /\ allocated' = allocated + Len(r.trace)
           /\ result' = [op |-> "resolve", impl |-> impl] @@ r
           /\ providers' = table
    /\ UNCHANGED <<instance, registries, superclass, metadata>>

ResolveCached(impl) ==
    /\ instance # Undefined
    /\ IF result.op = "resolve" /\ result.impl = impl /\ result.status = "return"
       THEN /\ result' = [result EXCEPT !.trace = <<>>]
            /\ UNCHANGED allocated
       ELSE LET r == resolve(providers, impl, allocated, 1)
            IN  /\ allocated + Len(r.trace) <= MaxObjects
                /\ allocated' = allocated + Len(r.trace)
                /\ result' = [op |-> "resolve", impl |-> impl] @@ r
    /\ UNCHANGED <<instance, registries, providers, superclass, metadata>>

Resolve(impl) ==
    /\ instance # Undefined
    /\ LET r == resolve(providers, impl, allocated, 1)
       IN  /\ allocated + Len(r.trace) <= MaxObjects
           /\ allocated' = allocated + Len(r.trace)
           /\ result' = [op |-> "resolve", impl |-> impl] @@ r
    /\ UNCHANGED <<instance, registries, providers, superclass, metadata>>

\* Injectable()(target): Registry.getInstance().register(target), run when the
\* decorated class is declared.
InjectableDetached(target) ==
    /\ instance' = IF instance = Undefined THEN "Registry" ELSE instance
    /\ registries' = IF instance = Undefined THEN registries + 1 ELSE registries
    /\ providers' = IF instance = Undefined THEN NoProviders ELSE providers
    /\ result' = [op |-> "Injectable", impl |-> target, status |-> "return",
                  paramtypes |-> NoParamTypes]
    /\ UNCHANGED <<allocated, superclass, metadata>>

Injectable(target) ==
    /\ instance' = IF instance = Undefined THEN "Registry" ELSE instance
    /\ registries' = IF instance = Undefined THEN registries + 1 ELSE registries
    /\ LET table == IF instance = Undefined THEN NoProviders ELSE providers
           token == NameOf(target)
       IN  IF has(table, token)
           THEN /\ result' = [op |-> "Injectable", impl |-> target, status |-> "throw",
                              error |-> AlreadyRegistered(token)]
                /\ providers' = table
           ELSE \E paramtypes \in ParamTypes :
                  LET deps == orEmpty(paramtypes)
                  IN  /\ SumParams(table, DOMAIN table) + Len(deps) <= MaxParams
                      /\ providers' = set(table, token, [impl |-> target, deps |-> deps])
                      /\ result' = [op |-> "Injectable", impl |-> target,
                                    status |-> "return", paramtypes |-> paramtypes]
    /\ UNCHANGED <<allocated, superclass, metadata>>

Next ==
    \/ GetInstance
    \/ \E impl \in Ctors : Register(impl)
    \/ \E impl \in Ctors : Resolve(impl)
    \/ \E target \in Ctors : Injectable(target)

Spec == Init /\ [][Next]_vars

\* ------------------------------------------------------------ the table
\* C1: register of a type whose token is already in the providers table throws
\* the already-registered error for that token and leaves the table as it was,
\* so the first registration (constructor and dependency list) still resolves.
C1_DuplicateRegistrationFails ==
    [][(result'.op = "register" /\ NameOf(result'.impl) \in DOMAIN providers)
         => /\ result'.status = "throw"
            /\ result'.error = AlreadyRegistered(NameOf(result'.impl))
            /\ providers' = providers
            /\ LET before == resolve(providers, result'.impl, allocated, 1)
                   after == resolve(providers', result'.impl, allocated', 1)
               IN  /\ after = before
                   /\ after.status = "throw"
                        => after.error # NotRegistered(NameOf(result'.impl))
       ]_vars

C1_Witness ==
    /\ result.op = "register"
    /\ result.status = "throw"
    /\ result.impl > NumNames
    /\ providers[NameOf(result.impl)].impl # result.impl
    /\ providers[NameOf(result.impl)].deps # <<>>

\* C9: the providers table only grows and its entries are frozen: a token
\* present before a step is present after it with the same constructor and
\* the same ordered dependency list, whichever call the step is.
C9_TableGrowsEntriesFrozen ==
    [][\A token \in DOMAIN providers :
          /\ token \in DOMAIN providers'
          /\ providers'[token] = providers[token]
       ]_vars

C9_Witness ==
    /\ Cardinality(DOMAIN providers) = NumNames
    /\ result.op = "resolve"
    /\ result.status = "throw"
    /\ allocated > 0

\* ------------------------------------------------------- the dependency graph
\* The tokens the provider of `token` depends on.
DepTokens(table, token) ==
    IF token \in DOMAIN table
    THEN {NameOf(table[token].deps[i]) : i \in 1..Len(table[token].deps)}
    ELSE {}

RECURSIVE Closure(_, _)
Closure(table, tokens) ==
    LET more == tokens \cup UNION {DepTokens(table, t) : t \in tokens}
    IN  IF more = tokens THEN tokens ELSE Closure(table, more)

\* The tokens of the dependency graph of `token`, itself included.
Reach(table, token) == Closure(table, {token})

\* The dependency graph of `token` holds a cycle.
Cyclic(table, token) ==
    \E t \in Reach(table, token) : t \in Closure(table, DepTokens(table, t))

\* The last call was resolve; its objects are numbered upwards from Base + 1.
Resolved == result.op = "resolve"
Base == allocated - Len(result.trace)
At(id) == result.trace[id - Base]

\* The objects of the subgraph of object `id`, itself included.
RECURSIVE Sub(_)
Sub(id) == {id} \cup UNION {Sub(At(id).args[i]) : i \in 1..Len(At(id).args)}

\* ------------------------------------------------------------ resolution
\* C3: resolve is depth-first in declaration order.  Every object is built by
\* the registered constructor of its token with one argument per declared
\* dependency, the i-th argument being an instance of the i-th declared
\* dependency built earlier in the same call; the whole subgraph of the i-th
\* argument is built before the subgraph of the (i+1)-th, and the requested
\* object is built last.  For Root[A,B] with A[C] and B, C without
\* dependencies the objects are built in the order C, A(C), B(), Root(A,B).
C3_DepthFirstDeclarationOrder ==
    Resolved =>
      /\ \A k \in 1..Len(result.trace) :
           LET o == result.trace[k]
               p == providers[NameOf(o.impl)]
           IN  /\ o.id = Base + k
               /\ o.impl = p.impl
               /\ Len(o.args) = Len(p.deps)
               /\ \A i \in 1..Len(o.args) :
                    /\ o.args[i] \in (Base + 1)..(o.id - 1)
                    /\ At(o.args[i]).impl = providers[NameOf(p.deps[i])].impl
                    /\ \A x \in Sub(o.args[i]) : x < o.id
               /\ \A i \in 1..(Len(o.args) - 1) :
                    \A x \in Sub(o.args[i]), y \in Sub(o.args[i + 1]) : x < y
      /\ result.status = "return" =>
           /\ Len(result.trace) > 0
           /\ result.value = allocated
           /\ At(result.value).impl = providers[NameOf(result.impl)].impl
      /\ \A root, a, b, c \in DOMAIN providers :
           ( /\ NameOf(result.impl) = root
             /\ Len(providers[root].deps) = 2
             /\ NameOf(providers[root].deps[1]) = a
             /\ NameOf(providers[root].deps[2]) = b
             /\ Len(providers[a].deps) = 1
             /\ NameOf(providers[a].deps[1]) = c
             /\ providers[b].deps = <<>>
             /\ providers[c].deps = <<>> )
           => /\ result.status = "return"
              /\ result.trace =
                   << [id |-> Base + 1, impl |-> providers[c].impl, args |-> <<>>],
                      [id |-> Base + 2, impl |-> providers[a].impl, args |-> <<Base + 1>>],
                      [id |-> Base + 3, impl |-> providers[b].impl, args |-> <<>>],
                      [id |-> Base + 4, impl |-> providers[root].impl,
                       args |-> <<Base + 2, Base + 3>>] >>

C3_Witness ==
    /\ Resolved
    /\ result.status = "return"
    /\ Len(result.trace) = 4
    /\ Len(At(result.value).args) = 2
    /\ Len(At(At(result.value).args[1]).args) = 1
    /\ At(At(result.value).args[2]).args = <<>>
    /\ At(At(result.value).args[1]).impl # At(At(result.value).args[2]).impl

\* C4: resolving a registered type whose dependency list is empty calls its
\* constructor once, with no argument, and returns that new object; nothing
\* else is built.  A type registered without 'design:paramtypes' metadata is
\* stored with the empty list.
C4_NoDependencies ==
    /\ ( /\ result.op = "register"
         /\ result.status = "return"
         /\ ~result.paramtypes.defined )
       => providers[NameOf(result.impl)].deps = <<>>
    /\ ( /\ Resolved
         /\ NameOf(result.impl) \in DOMAIN providers
         /\ providers[NameOf(result.impl)].deps = <<>> )
       => /\ result.status = "return"
          /\ result.trace = << [id |-> allocated,
                                impl |-> providers[NameOf(result.impl)].impl,
                                args |-> <<>>] >>
          /\ result.value = allocated

C4_Witness ==
    /\ Resolved
    /\ NameOf(result.impl) \in DOMAIN providers
    /\ providers[NameOf(result.impl)].deps = <<>>
    /\ Cardinality(DOMAIN providers) > 1
    /\ result.status = "return"

\* The identities resolve meets while walking the dependency graph of `token`,
\* in the order it meets them, and how the walk ends: "done", at an identity
\* that is "missing" from the table, or out of stack ("overflow").
RECURSIVE Walk(_, _, _)
RECURSIVE WalkDeps(_, _, _, _, _)
WalkDeps(table, deps, i, depth, seen) ==
    IF i > Len(deps)
    THEN [seen |-> seen, end |-> "done"]
    ELSE LET w == Walk(table, NameOf(deps[i]), depth + 1)
         IN  IF w.end # "done"
             THEN [seen |-> seen \o w.seen, end |-> w.end]
             ELSE WalkDeps(table, deps, i + 1, depth, seen \o w.seen)

Walk(table, token, depth) ==
    IF depth > MaxStack THEN [seen |-> <<>>, end |-> "overflow"]
    ELSE IF token \notin DOMAIN table THEN [seen |-> <<token>>, end |-> "missing"]
    ELSE WalkDeps(table, table[token].deps, 1, depth, <<token>>)

\* C2: resolve throws the not-registered error whenever the requested identity,
\* or an identity it meets at any depth while walking the dependency graph,
\* has no entry in the table, and the error names exactly that identity: a
\* reachable identity without entry, the nested one and not the requested one
\* when the gap is nested.  With an identity missing from the graph resolve
\* never returns an instance.
C2_UnregisteredNamesMissing ==
    Resolved =>
      LET root == NameOf(result.impl)
          w == Walk(providers, root, 1)
          missing == Reach(providers, root) \ DOMAIN providers
      IN  /\ w.end = "missing" =>
               /\ result.status = "throw"
               /\ result.error = NotRegistered(w.seen[Len(w.seen)])
          /\ root \notin DOMAIN providers =>
               /\ result.status = "throw"
               /\ result.error = NotRegistered(root)
          /\ (result.status = "throw" /\ result.error.name = "Error") =>
               /\ result.error = NotRegistered(result.error.token)
               /\ result.error.token \in missing
          /\ missing # {} => result.status = "throw"
          /\ (missing # {} /\ ~Cyclic(providers, root)) =>
               /\ result.error.name = "Error"
               /\ w.end = "missing"

\* The gap is nested three levels deep: the requested type and its dependency
\* are registered, the dependency's dependency is not.
C2_Witness ==
    /\ Resolved
    /\ result.status = "throw"
    /\ result.error.name = "Error"
    /\ LET seen == Walk(providers, NameOf(result.impl), 1).seen
       IN  /\ Len(seen) = 3
           /\ Cardinality({seen[1], seen[2], seen[3]}) = 3
           /\ seen[1] = NameOf(result.impl)
           /\ providers[seen[1]].deps # <<>>
           /\ seen[2] = NameOf(providers[seen[1]].deps[1])
           /\ providers[seen[2]].deps # <<>>
           /\ seen[3] = NameOf(providers[seen[2]].deps[1])
           /\ seen[3] = result.error.token

\* The objects a resolve result speaks of: those it built, those passed to
\* their constructors, the one it returned.
Objects(r) ==
    {r.trace[k].id : k \in 1..Len(r.trace)}
      \cup UNION {{r.trace[k].args[i] : i \in 1..Len(r.trace[k].args)} : k \in 1..Len(r.trace)}
      \cup (IF r.status = "return" THEN {r.value} ELSE {})

\* C5: nothing is cached across resolutions.  Every object of a resolve call
\* (the instance returned and its whole dependency graph) is allocated during
\* that call, and every object of an earlier call was allocated before it, so
\* two resolve calls, of the same identity or not, share no instance.
C5_NoCachingAcrossResolutions ==
    [][/\ Resolved => Objects(result) \subseteq 1..allocated
       /\ result'.op = "resolve" =>
            /\ Objects(result') \subseteq (allocated + 1)..allocated'
            /\ result'.status = "return" => result'.value \in (allocated + 1)..allocated'
            /\ Resolved => Objects(result') \cap Objects(result) = {}
      ]_vars

\* One identity registered without dependencies and resolved at least twice.
C5_Witness ==
    /\ Resolved
    /\ result.status = "return"
    /\ DOMAIN providers = {NameOf(result.impl)}
    /\ Len(result.trace) = 1
    /\ allocated >= 2

\* The number of paths from `from` to `to` in an acyclic dependency graph:
\* the number of places at which `to` occurs in the graph of `from`.
RECURSIVE Paths(_, _, _)
RECURSIVE PathsVia(_, _, _, _)
PathsVia(table, deps, i, to) ==
    IF i > Len(deps) THEN 0
    ELSE Paths(table, NameOf(deps[i]), to) + PathsVia(table, deps, i + 1, to)

Paths(table, from, to) ==
    (IF from = to THEN 1 ELSE 0) + PathsVia(table, table[from].deps, 1, to)

\* How many objects of identity `token` the last resolve built, and to how many
\* constructor parameters it passed object `id`.
Built(token) ==
    Cardinality({k \in 1..Len(result.trace) : NameOf(result.trace[k].impl) = token})
Uses(id) ==
    Cardinality({ki \in (1..Len(result.trace)) \X (1..MaxDeps) :
                   /\ ki[2] <= Len(result.trace[ki[1]].args)
                   /\ result.trace[ki[1]].args[ki[2]] = id})

\* C6: no instance is reused within one resolution.  A type that occurs at
\* several places of the resolved dependency graph (a diamond) is constructed
\* once per occurrence, and each occurrence receives an object of its own: no
\* object is passed to two constructor parameters.
C6_NoReuseWithinResolution ==
    (Resolved /\ result.status = "return") =>
      \A token \in DOMAIN providers :
        Paths(providers, NameOf(result.impl), token) >= 2 =>
          /\ Built(token) = Paths(providers, NameOf(result.impl), token)
          /\ \A k \in 1..Len(result.trace) :
               NameOf(result.trace[k].impl) = token => Uses(result.trace[k].id) = 1
          /\ \A k, l \in 1..Len(result.trace) :
               k # l => result.trace[k].id # result.trace[l].id

\* A diamond: one type reached through two different dependencies.
C6_Witness ==
    /\ Resolved
    /\ result.status = "return"
    /\ \E token \in DOMAIN providers :
         /\ Paths(providers, NameOf(result.impl), token) = 2
         /\ Len(providers[NameOf(result.impl)].deps) = 2
         /\ NameOf(providers[NameOf(result.impl)].deps[1])
              # NameOf(providers[NameOf(result.impl)].deps[2])

\* C7 as the specification states it: within one resolve call each registered
\* type is instantiated at most once.
C7_AtMostOncePerCall ==
    Resolved => \A token \in DOMAIN providers : Built(token) <= 1

\* C7 as the code has it: a successful resolve call instantiates each type
\* once for every place at which it occurs in the dependency graph of the
\* requested type, so at most once exactly for the types that occur at most
\* once, and never a type outside that graph.
C7_OncePerOccurrence ==
    (Resolved /\ result.status = "return") =>
      /\ \A token \in DOMAIN providers :
           /\ Built(token) = Paths(providers, NameOf(result.impl), token)
           /\ Built(token) <= 1 <=> Paths(providers, NameOf(result.impl), token) <= 1
           /\ token \notin Reach(providers, NameOf(result.impl)) => Built(token) = 0
      /\ Built(NameOf(result.impl)) = 1

C7_Witness ==
    /\ Resolved
    /\ result.status = "return"
    /\ \E token \in DOMAIN providers : Built(token) = 2
    /\ \E token \in DOMAIN providers : Built(token) = 0

\* C8: resolving a type whose dependency graph holds a cycle fails with a
\* CyclicDependency error.
C8_CycleDetected ==
    (Resolved /\ Cyclic(providers, NameOf(result.impl))) =>
      /\ result.status = "throw"
      /\ result.error.name = "CyclicDependency"

\* A resolve result with its objects numbered from 1.
Rebased(r, base) ==
    [r EXCEPT !.trace = [k \in 1..Len(r.trace) |->
                           [id |-> r.trace[k].id - base,
                            impl |-> r.trace[k].impl,
                            args |-> [i \in 1..Len(r.trace[k].args) |->
                                        r.trace[k].args[i] - base]]],
              !.status = IF r.status = "return" THEN <<"return", r.value - base>>
                         ELSE <<"throw", r.error>>]

\* C10: resolve never changes the providers table (nor the singleton), be it
\* successful or failing, and two resolve calls in a row of the same
\* constructor build the same sequence of objects, fresh ones each time, and
\* end the same way.
C10_ResolveLeavesTable ==
    [][result'.op = "resolve" =>
         /\ providers' = providers
         /\ instance' = instance
         /\ (Resolved /\ result.impl = result'.impl) =>
              /\ Rebased(result', allocated).trace = Rebased(result, Base).trace
              /\ Rebased(result', allocated).status = Rebased(result, Base).status
      ]_vars

\* A failing resolve that has built objects, after earlier resolve calls.
C10_Witness ==
    /\ Resolved
    /\ result.status = "throw"
    /\ Len(result.trace) > 0
    /\ Base > 0
    /\ Cardinality(DOMAIN providers) >= 2

\* ------------------------------------------------------------ the singleton
\* C11: the Registry is a lazily created process-wide singleton.  No Registry
\* object exists while Registry.instance is undefined, the first one is built
\* by a getInstance call (a direct one or the one Injectable makes) and none
\* is ever built after it; every getInstance call returns that one object and
\* leaves its providers table alone, so what was registered through an earlier
\* getInstance result resolves the same way through a later one.
C11_LazySingleton ==
    [][/\ (instance = Undefined) <=> (registries = 0)
       /\ instance = Undefined => (providers = NoProviders /\ result.op = "none")
       /\ registries' <= 1
       /\ registries' # registries => result'.op \in {"getInstance", "Injectable"}
       /\ instance # Undefined => instance' = instance
       /\ result'.op = "getInstance" =>
            /\ instance' # Undefined
            /\ result'.value = instance'
            /\ instance # Undefined =>
                 /\ result'.value = instance
                 /\ registries' = registries
                 /\ providers' = providers
                 /\ \A impl \in Ctors :
                      resolve(providers', impl, allocated', 1)
                        = resolve(providers, impl, allocated, 1)
      ]_vars

\* getInstance called again after registrations and resolutions.
C11_Witness ==
    /\ result.op = "getInstance"
    /\ Cardinality(DOMAIN providers) >= 2
    /\ allocated > 0
    /\ \E impl \in Ctors : resolve(providers, impl, allocated, 1).status = "return"

\* C12: Injectable registers the decorated class into the one Registry that
\* getInstance returns: when its name is free the call returns, the table gains
\* exactly the entry of that class, with the dependency list read from its
\* metadata, and resolve of the class no longer fails for the class being
\* unregistered.  Applied to a class whose name is registered already, it
\* throws the Registry's already-registered error and the table stays as it
\* was.
C12_InjectableRegistersOnce ==
    [][result'.op = "Injectable" =>
         LET token == NameOf(result'.impl)
             table == IF instance = Undefined THEN NoProviders ELSE providers
         IN  /\ instance' # Undefined
             /\ registries' = 1
             /\ instance # Undefined => instance' = instance
             /\ token \notin DOMAIN table =>
                  /\ result'.status = "return"
                  /\ DOMAIN providers' = DOMAIN table \cup {token}
                  /\ \A t \in DOMAIN table : providers'[t] = table[t]
                  /\ providers'[token] = [impl |-> result'.impl,
                                          deps |-> orEmpty(result'.paramtypes)]
                  /\ LET r == resolve(providers', result'.impl, allocated', 1)
                     IN  /\ r.status = "throw" => r.error # NotRegistered(token)
                         /\ providers'[token].deps = <<>> =>
                              (r.status = "return" /\ r.trace[1].impl = result'.impl)
             /\ token \in DOMAIN table =>
                  /\ result'.status = "throw"
                  /\ result'.error = AlreadyRegistered(token)
                  /\ providers' = providers
      ]_vars

\* Injectable applied to a class that is registered, with dependencies,
\* already.
C12_Witness ==
    /\ result.op = "Injectable"
    /\ result.status = "throw"
    /\ NameOf(result.impl) \in DOMAIN providers
    /\ providers[NameOf(result.impl)].impl = result.impl
    /\ providers[NameOf(result.impl)].deps # <<>>

\* C13: no two distinct constructors are registered under one identity.  Every
\* entry of the table holds one constructor, whose name is the entry's key, so
\* two registered constructors of one name are one constructor; registering
\* (directly or through Injectable) a constructor whose name is the key of an
\* entry holding a different constructor throws the already-registered error
\* and leaves that first constructor, with its dependency list, as the entry.
C13_OneConstructorPerIdentity ==
    [][/\ \A t \in DOMAIN providers' : NameOf(providers'[t].impl) = t
       /\ \A t, u \in DOMAIN providers' :
            NameOf(providers'[t].impl) = NameOf(providers'[u].impl)
              => providers'[t].impl = providers'[u].impl
       /\ \A token \in DOMAIN providers :
            ( /\ result'.op \in {"register", "Injectable"}
              /\ NameOf(result'.impl) = token
              /\ result'.impl # providers[token].impl )
            => /\ result'.status = "throw"
               /\ result'.error = AlreadyRegistered(token)
               /\ providers' = providers
               /\ providers'[token].impl # result'.impl
      ]_vars

\* With every name taken, a second, different class of a taken name is
\* rejected.
C13_Witness ==
    /\ result.op \in {"register", "Injectable"}
    /\ result.status = "throw"
    /\ result.impl <= NumNames
    /\ NameOf(result.impl) \in DOMAIN providers
    /\ providers[NameOf(result.impl)].impl # result.impl
    /\ Cardinality(DOMAIN providers) = NumNames

\* ------------------------------------------------------------ termination
\* The number of paths of the dependency graph of `token` that start at
\* `token` and end at a registered identity (the empty path included); defined
\* for acyclic graphs.
RECURSIVE PathCount(_, _)
RECURSIVE PathCountVia(_, _, _)
PathCountVia(table, deps, i) ==
    IF i > Len(deps) THEN 0
    ELSE PathCount(table, NameOf(deps[i])) + PathCountVia(table, deps, i + 1)

PathCount(table, token) ==
    IF token \notin DOMAIN table THEN 0
    ELSE 1 + PathCountVia(table, table[token].deps, 1)

\* C18: on a table whose dependency graph reachable from the requested identity
\* is acyclic, resolve ends with an instance or with the not-registered error
\* (never by running out of stack), having called at most as many constructors
\* as the graph has paths from the requested identity, and exactly that many
\* when it returns an instance.
C18_TerminatesOnAcyclicGraphs ==
    (Resolved /\ ~Cyclic(providers, NameOf(result.impl))) =>
      LET root == NameOf(result.impl)
      IN  /\ \/ result.status = "return"
             \/ /\ result.status = "throw"
                /\ result.error.name = "Error"
                /\ result.error = NotRegistered(result.error.token)
          /\ Len(result.trace) <= PathCount(providers, root)
          /\ result.status = "return" => Len(result.trace) = PathCount(providers, root)
          /\ Walk(providers, root, 1).end # "overflow"

\* The deepest acyclic graph the table can hold, a chain through every name,
\* resolved from its top.
C18_Witness ==
    /\ Resolved
    /\ ~Cyclic(providers, NameOf(result.impl))
    /\ result.status = "return"
    /\ Len(result.trace) = NumNames
    /\ \A k \in 1..Len(result.trace) : Len(result.trace[k].args) <= 1

\* ------------------------------------------------------- registration order
\* C19 as the specification states it, for the part that speaks of success:
\* resolve returns an instance provided every identity of the requested graph
\* is registered by the time resolve is called.
C19_SucceedsWhenAllRegistered ==
    (Resolved /\ Reach(providers, NameOf(result.impl)) \subseteq DOMAIN providers)
      => result.status = "return"

\* C19 as the code has it: registration order is irrelevant to resolution.
\* register (and Injectable) of a free name returns whether or not the
\* declared dependencies
\* are registered, and stores them as declared; dependencies are looked up
\* when resolve runs, so resolve returns an instance whenever every identity of
\* the requested graph is registered by then (and the graph is acyclic), in
\* whatever order the table was filled, and what it builds depends on the
\* table only.
C19_RegistrationOrderIrrelevant ==
    [][/\ ( /\ result'.op \in {"register", "Injectable"}
            /\ NameOf(result'.impl) \notin DOMAIN providers )
          => /\ result'.status = "return"
             /\ providers'[NameOf(result'.impl)].deps = orEmpty(result'.paramtypes)
       /\ result'.op = "resolve" =>
            LET root == NameOf(result'.impl)
            IN  /\ ( /\ Reach(providers', root) \subseteq DOMAIN providers'
                     /\ ~Cyclic(providers', root) )
                   => /\ result'.status = "return"
                      /\ Len(result'.trace) = PathCount(providers', root)
                /\ LET r == resolve(providers', result'.impl, 0, 1)
                   IN  /\ Rebased(result', allocated).trace = r.trace
                       /\ Rebased(result', allocated).status = Rebased(r, 0).status
      ]_vars

\* The last registration completed a graph whose top was registered before
\* its dependency: the dependency has just been registered and the dependent,
\* registered earlier, resolves.
C19_Witness ==
    /\ result.op \in {"register", "Injectable"}
    /\ result.status = "return"
    /\ \E t \in DOMAIN providers :
         /\ t # NameOf(result.impl)
         /\ NameOf(result.impl) \in DepTokens(providers, t)
         /\ Reach(providers, t) \subseteq DOMAIN providers
         /\ ~Cyclic(providers, t)
         /\ resolve(providers, providers[t].impl, allocated, 1).status = "return"

\* ------------------------------------------------------------ failing fast
\* C20: when resolve throws the not-registered error for an identity, no
\* constructor of a type that has that identity in its dependency graph has
\* been called, the requested type's least of all; the objects built until then
\* belong to identities resolve met earlier, in depth-first declaration order,
\* than the missing one; every identity met before the missing one is
\* registered, so of several missing identities the error names the first met.
C20_FailureLeavesDependentsUnbuilt ==
    (Resolved /\ result.status = "throw" /\ result.error.name = "Error") =>
      LET root == NameOf(result.impl)
          m == result.error.token
          w == Walk(providers, root, 1)
          n == Len(w.seen)
      IN  /\ result.error = NotRegistered(m)
          /\ m \in Reach(providers, root)
          /\ Built(root) = 0
          /\ \A k \in 1..Len(result.trace) :
               m \notin Reach(providers, NameOf(result.trace[k].impl))
          /\ \A t \in DOMAIN providers : m \in Reach(providers, t) => Built(t) = 0
          /\ w.end = "missing"
          /\ w.seen[n] = m
          /\ \A j \in 1..(n - 1) : w.seen[j] \in DOMAIN providers
          /\ \A k \in 1..Len(result.trace) :
               \E j \in 1..(n - 1) : w.seen[j] = NameOf(result.trace[k].impl)
          /\ Len(result.trace) < n
          /\ root # m => Len(result.trace) <= n - 2

\* The requested type declares two dependencies: the first is built, the
\* second is missing, the requested type is not built.
C20_Witness ==
    /\ Resolved
    /\ result.status = "throw"
    /\ result.error.name = "Error"
    /\ NameOf(result.impl) \in DOMAIN providers
    /\ Len(providers[NameOf(result.impl)].deps) = 2
    /\ result.error.token = NameOf(providers[NameOf(result.impl)].deps[2])
    /\ Len(result.trace) = 1
    /\ NameOf(result.trace[1].impl) = NameOf(providers[NameOf(result.impl)].deps[1])

\* Two identities of the requested graph are missing.
C20_SeveralMissing ==
    /\ Resolved
    /\ result.status = "throw"
    /\ result.error.name = "Error"
    /\ Cardinality(Reach(providers, NameOf(result.impl)) \ DOMAIN providers) = 2

\* ------------------------------------------------------ the Schema decorator
\* (src/foodiary-api/src/kernel/decorators/Schema.ts)  Classes are the
\* constructors above; which class extends which is fixed when the classes are
\* declared.  Reflect metadata defined on a class is found from the classes
\* that extend it, Reflect.getMetadata following the prototype chain.
Schemas == {"s1", "s2"}

\* What getSchema is handed: an instance of a class, or a class itself.
Targets == [kind : {"instance", "class"}, of : Ctors]

schemaVars == <<superclass, metadata, result>>

\* target.constructor: the class of an instance; of a class, Function, which is
\* no class of the program and carries no metadata.
constructorOf(target) == IF target.kind = "instance" THEN target.of ELSE NoClass

\* Reflect.getMetadata('custom:schema', O)
RECURSIVE getMetadata(_, _, _)
getMetadata(md, super, O) ==
    IF O = NoClass THEN Undefined
    ELSE IF md[O] # Undefined THEN md[O]
    ELSE getMetadata(md, super, super[O])

\* getSchema(target)
getSchema(md, super, target) == getMetadata(md, super, constructorOf(target))

SchemaInit ==
    /\ instance = Undefined
    /\ registries = 0
    /\ providers = NoProviders
    /\ allocated = 0
    /\ result = [op |-> "none"]
    /\ superclass \in {f \in [Ctors -> {NoClass} \cup Ctors] : \A c \in Ctors : f[c] < c}
    /\ metadata = NoMetadata

\* Schema(schema)(target): Reflect.defineMetadata('custom:schema', schema, target)
SchemaFirstWins(schema, target) ==
    /\ metadata' = IF metadata[target] = Undefined
                   THEN [metadata EXCEPT ![target] = schema]
                   ELSE metadata
    /\ result' = [op |-> "Schema", target |-> target, schema |-> schema,
                  status |-> "return", previous |-> metadata[target]]
    /\ UNCHANGED <<instance, registries, providers, allocated, superclass>>

Schema(schema, target) ==
    /\ metadata' = [metadata EXCEPT ![target] = schema]
    /\ result' = [op |-> "Schema", target |-> target, schema |-> schema,
                  status |-> "return", previous |-> metadata[target]]
    /\ UNCHANGED <<instance, registries, providers, allocated, superclass>>

GetSchema(target) ==
    /\ result' = [op |-> "getSchema", target |-> target, status |-> "return",
                  value |-> getSchema(metadata, superclass, target)]
    /\ UNCHANGED <<instance, registries, providers, allocated, superclass, metadata>>

SchemaNext ==
    \/ \E schema \in Schemas, target \in Ctors : Schema(schema, target)
    \/ \E target \in Targets : GetSchema(target)

SchemaSpec == SchemaInit /\ [][SchemaNext]_schemaVars

\* C14: getSchema for a type on which Schema was never applied returns
\* undefined: it does not throw and returns no default and no other type's
\* schema.
C14_UnannotatedLookupAbsent ==
    (result.op = "getSchema" /\ metadata[result.target.of] = Undefined) =>
      /\ result.status = "return"
      /\ result.value = Undefined

\* C15: Schema is last-write-wins.  Applying Schema to a class returns, whether
\* or not the class carries a schema already, and makes the given schema the
\* class's metadata, leaving the other classes alone; nothing but Schema applied
\* to a class changes that class's metadata, so every later getSchema of an
\* instance of the class returns the schema applied last.
C15_LastWriteWins ==
    [][/\ result'.op = "Schema" =>
            /\ result'.status = "return"
            /\ metadata' = [metadata EXCEPT ![result'.target] = result'.schema]
            /\ getSchema(metadata', superclass',
                         [kind |-> "instance", of |-> result'.target]) = result'.schema
       /\ result'.op = "getSchema" =>
            /\ metadata' = metadata
            /\ ( /\ result'.target.kind = "instance"
                 /\ metadata[result'.target.of] # Undefined )
               => result'.value = metadata[result'.target.of]
       /\ \A c \in Ctors :
            metadata'[c] # metadata[c] => (result'.op = "Schema" /\ result'.target = c)
      ]_schemaVars

\* Schema applied to a class that carries another schema: the new one is in
\* effect.
C15_Witness ==
    /\ result.op = "Schema"
    /\ result.previous \in Schemas
    /\ result.previous # result.schema
    /\ getSchema(metadata, superclass, [kind |-> "instance", of |-> result.target])
         = result.schema

\* C16: after Schema(s) has been applied to a class, getSchema returns s when
\* called with an instance of the class and when called with the class itself.
C16_RoundTrip ==
    (result.op = "getSchema" /\ metadata[result.target.of] # Undefined) =>
      result.value = metadata[result.target.of]

\* ------------------------------------------------------ the Lambda adapter
\* lambdaHttpAdapter (src/foodiary-api/src/shared/README.md, lines 254-297).
\* What lambdaBodyParser and controller.execute return or throw are inputs of
\* a handler call.
MaxIssues == 2       \* issues of one ZodError

ErrorCode ==
    [VALIDATION |-> "VALIDATION", INTERNAL_SERVER_ERROR |-> "INTERNAL_SERVER_ERROR"]

\* The errors a handler call can meet: a ZodError with its issues, an HttpError
\* (or an error of a class that extends it) with its status code, code and
\* message, and anything else that can be thrown.
Issues == [path : {<<>>, <<"email">>, <<"user", "email">>}, message : {"Required", "Invalid email"}]
ZodErrors ==
    {[kind |-> "ZodError", issues |-> i] :
       i \in UNION {[1..n -> Issues] : n \in 0..MaxIssues}}
HttpErrors ==
    [kind : {"HttpError"}, statusCode : {400, 404}, code : {"BAD_REQUEST", "NOT_FOUND"},
     message : {"Malformed body."}]
OtherErrors == [kind : {"other"}, name : {"TypeError", "string"}]
Errors == ZodErrors \cup HttpErrors \cup OtherErrors

\* error instanceof ZodError, error instanceof HttpError
instanceofZodError(error) == error.kind = "ZodError"
instanceofHttpError(error) == error.kind = "HttpError"

\* What lambdaBodyParser(event.body) does: it returns the parsed body or throws.
Bodies == {"{}", "{email}"}
Parsings ==
    [status : {"return"}, value : Bodies] \cup [status : {"throw"}, error : Errors]

\* What controller.execute(request) does: it returns a response (whose body may
\* be undefined, empty, data, or data JSON cannot serialize) or throws.
Responses == [statusCode : {200, 204}, body : {Undefined, "", "data", "circular"}]
Executions ==
    [status : {"return"}, value : Responses] \cup [status : {"throw"}, error : Errors]

\* JSON.stringify(value)
stringify(value) == [json |-> value]

\* issue.path.join('.')
RECURSIVE join(_)
join(path) ==
    IF path = <<>> THEN ""
    ELSE IF Len(path) = 1 THEN path[1]
    ELSE path[1] \o "." \o join(Tail(path))

\* lambdaErrorResponse({ statusCode, code, message })
lambdaErrorResponse(error) ==
    [statusCode |-> error.statusCode,
     body |-> stringify([code |-> error.code, message |-> error.message])]

\* The try block of the handler.
tryBlock(parsed, executed) ==
    IF parsed.status = "throw" THEN parsed
    ELSE IF executed.status = "throw" THEN executed
    ELSE LET response == executed.value
         IN  IF response.body \in {Undefined, ""}
             THEN [status |-> "return",
                   value |-> [statusCode |-> response.statusCode, body |-> Undefined]]
             ELSE IF response.body = "circular"
             THEN [status |-> "throw", error |-> [kind |-> "other", name |-> "TypeError"]]
             ELSE [status |-> "return",
                   value |-> [statusCode |-> response.statusCode,
                              body |-> stringify(response.body)]]

\* The catch block of the handler.
catchBlockRethrowing(error) ==
    IF instanceofZodError(error)
    THEN [status |-> "return", logged |-> FALSE,
          value |-> lambdaErrorResponse(
                      [statusCode |-> 400,
                       code |-> ErrorCode.VALIDATION,
                       message |-> [k \in 1..Len(error.issues) |->
                                      [field |-> join(error.issues[k].path),
                                       error |-> error.issues[k].message]]])]
    ELSE IF instanceofHttpError(error)
    THEN [status |-> "return", logged |-> FALSE, value |-> lambdaErrorResponse(error)]
    ELSE [status |-> "throw", logged |-> TRUE, error |-> error]

catchBlock(error) ==
    IF instanceofZodError(error)
    THEN [status |-> "return", logged |-> FALSE,
          value |-> lambdaErrorResponse(
                      [statusCode |-> 400,
                       code |-> ErrorCode.VALIDATION,
                       message |-> [k \in 1..Len(error.issues) |->
                                      [field |-> join(error.issues[k].path),
                                       error |-> error.issues[k].message]]])]
    ELSE IF instanceofHttpError(error)
    THEN [status |-> "return", logged |-> FALSE, value |-> lambdaErrorResponse(error)]
    ELSE [status |-> "return", logged |-> TRUE,
          value |-> lambdaErrorResponse(
                      [statusCode |-> 500,
                       code |-> ErrorCode.INTERNAL_SERVER_ERROR,
                       message |-> "Internal server error."])]

\* The controller is executed only when the body was parsed.
NotExecuted == [status |-> "none"]

\* One call of the handler that lambdaHttpAdapter(controller) returns: the
\* promise resolves with a response ("return") or rejects with an error
\* ("throw").
Handler(parsed, executed) ==
    /\ executed = NotExecuted <=> parsed.status = "throw"
    /\ LET try == tryBlock(parsed, executed)
           end == IF try.status = "return"
                  THEN [status |-> "return", logged |-> FALSE, value |-> try.value]
                  ELSE catchBlock(try.error)
       IN  result' = [op |-> "handler", parsed |-> parsed, executed |-> executed] @@ end
    /\ UNCHANGED <<instance, registries, providers, allocated, superclass, metadata>>

AdapterNext ==
    \E parsed \in Parsings, executed \in Executions \cup {NotExecuted} :
      Handler(parsed, executed)

adapterVars == <<result>>

AdapterSpec == Init /\ [][AdapterNext]_adapterVars

\* The error the handler call caught, if parsing or executing threw one.
Caught ==
    IF result.parsed.status = "throw" THEN {result.parsed.error}
    ELSE IF result.executed.status = "throw" THEN {result.executed.error}
    ELSE {}

\* C17: the handler maps every error thrown while parsing the body or
\* executing the controller to a response and never rejects.  A ZodError gives
\* status 400 with the validation code and one {field, error} item per issue,
\* the field being the issue's path joined by dots; otherwise an HttpError
\* gives its own status code (with its code and message); any other error
\* gives status 500 with the internal-server-error code.
C17_ErrorsMappedToResponses ==
    result.op = "handler" =>
      /\ result.status = "return"
      /\ \A error \in Caught :
           LET response == result.value
               payload == response.body.json
           IN  /\ error.kind = "ZodError" =>
                    /\ response.statusCode = 400
                    /\ payload.code = "VALIDATION"
                    /\ Len(payload.message) = Len(error.issues)
                    /\ \A k \in 1..Len(error.issues) :
                         /\ DOMAIN payload.message[k] = {"field", "error"}
                         /\ payload.message[k].error = error.issues[k].message
                         /\ error.issues[k].path = <<"user", "email">>
                              => payload.message[k].field = "user.email"
                         /\ error.issues[k].path = <<"email">>
                              => payload.message[k].field = "email"
                         /\ error.issues[k].path = <<>>
                              => payload.message[k].field = ""
               /\ error.kind = "HttpError" =>
                    /\ response.statusCode = error.statusCode
                    /\ payload = [code |-> error.code, message |-> error.message]
               /\ error.kind \notin {"ZodError", "HttpError"} =>
                    /\ response.statusCode = 500
                    /\ payload.code = "INTERNAL_SERVER_ERROR"
                    /\ result.logged

\* The controller threw a ZodError of two issues, one of them on a nested
\* field.
C17_Witness ==
    /\ result.op = "handler"
    /\ result.parsed.status = "return"
    /\ result.executed.status = "throw"
    /\ result.executed.error.kind = "ZodError"
    /\ Len(result.executed.error.issues) = MaxIssues
    /\ result.executed.error.issues[1].path = <<"user", "email">>
    /\ result.status = "return"
    /\ result.value.statusCode = 400

\* ------------------------------------------------------------ substitution
\* C21: a successful resolve(T) returns an instance built by the very
\* constructor T that was passed to resolve, and every constructor argument of
\* every object it builds is an instance built by the corresponding declared
\* dependency constructor: the lookup by identity never puts another
\* constructor in the place of the requested one.
C21_BuiltByRequestedConstructor ==
    (Resolved /\ result.status = "return") =>
      /\ At(result.value).impl = result.impl
      /\ \A k \in 1..Len(result.trace) :
           LET o == result.trace[k]
               deps == providers[NameOf(o.impl)].deps
           IN  \A i \in 1..Len(o.args) :
                 i <= Len(deps) => At(o.args[i]).impl = deps[i]

====
